---- MODULE Spec2Model ----
(***************************************************************************)
(* A model of takeoff's extraction-and-cache subsystem:                    *)
(*   utils.get_sha256sum, pdf.process, pdf.store, pdf.load, the two        *)
(*   Pixmap hooks of the converter, and cli.takeoff.                       *)
(*                                                                         *)
(* Floats are exact rationals [num, den]; strings that are written or      *)
(* compared character-wise (file names) are sequences of characters; the   *)
(* structured record file is a sequence of tokens, written through a       *)
(* buffer in flushes of at most BufSize tokens at the writer's own file    *)
(* offset.                                                                 *)
(***************************************************************************)
EXTENDS Integers, Sequences, FiniteSets, TLC

VARIABLES dirs, records, assets, wr, rd, hist, run

vars == <<dirs, records, assets, wr, rd, hist, run>>

(***************************************************************************)
(* Bounds of the model.                                                    *)
(***************************************************************************)
\* tokens the file object buffers before it flushes them to the file
BufSize == 3
\* load calls the reading client makes
MaxLoads == 1
\* asset files the environment deletes
MaxDeletes == 1
\* runs of the command line
MaxRuns == 2

(***************************************************************************)
(* Program constants.                                                      *)
(***************************************************************************)
DPI == 150
PointsPerInch == 72

(***************************************************************************)
(* Numbers.  A float is the rational num/den, den > 0.                     *)
(***************************************************************************)
Float(n, d) == [num |-> n, den |-> d]

\* Python's ==, which compares an int and a float by value
NumEq(a, b) == a.num * b.den = b.num * a.den

\* Python's int(x) of a float: truncation towards zero
PyInt(x) ==
    IF x.num >= 0 THEN Float(x.num \div x.den, 1)
                  ELSE Float(-((-x.num) \div x.den), 1)

\* Python's float(x)
PyFloat(x) == x

(***************************************************************************)
(* The input files.  A path has a name and bytes; the document library     *)
(* turns the bytes into a handle: a sequence of pages, each with its       *)
(* rectangle, its raw text, its content tree and the samples it renders    *)
(* to.  A dict is a function on the keys it holds.                         *)
(***************************************************************************)
Span(t, box) == [text |-> t, bbox |-> box]

TitleSpan == Span("Title", <<10, 10, 100, 30>>)
SubtitleSpan == Span("Subtitle", <<10, 35, 100, 50>>)

\* a text block of two lines, the second of which has an empty span list
TitleBlock ==
    [type |-> 0,
     lines |-> << [spans |-> <<TitleSpan, SubtitleSpan>>], [spans |-> <<>>] >>]
\* an image block
ImageBlock == [type |-> 1]
\* a text block that has no "lines" key
BareTextBlock == [type |-> 0]
\* a text block with an empty line list
EmptyTextBlock == [type |-> 0, lines |-> <<>>]
\* a text block one of whose lines has no "spans" key
SpanlessLineBlock ==
    [type |-> 0, lines |-> << [spans |-> <<TitleSpan>>], [wmode |-> 0] >>]

Letter == [width |-> Float(612, 1), height |-> Float(792, 1)]
A4 == [width |-> Float(1191, 2), height |-> Float(1684, 2)]

LibPage(rect, text, dict, samples) ==
    [rect |-> rect, text |-> text, dict |-> dict, samples |-> samples]

Bytes == {"b0", "b1", "b2", "b3"}

\* fitz.open: the pages of the document the bytes hold
FitzOpen(b) ==
    CASE b = "b0" -> <<>>
      [] b = "b1" ->
           << LibPage(Letter, "Title\nSubtitle\n",
                      [blocks |-> <<TitleBlock, ImageBlock, BareTextBlock>>], "s1"),
              LibPage(Letter, "", [width |-> 612], "s2") >>
      [] b = "b2" ->
           << LibPage(A4, "", [blocks |-> <<EmptyTextBlock>>], "s3"),
              LibPage(A4, "", [blocks |-> <<>>], "s3") >>
      [] b = "b3" ->
           << LibPage(Letter, "Title\n",
                      [blocks |-> <<SpanlessLineBlock>>], "s1") >>

Names == { <<"a">>, <<"b", "b">> }

Paths == [name : Names, bytes : Bytes]

\* utils.get_sha256sum: the digest of the file's bytes, whatever its name
get_sha256sum(path) ==
    CASE path.bytes = "b0" -> "e3b0"
      [] path.bytes = "b1" -> "5f1c"
      [] path.bytes = "b2" -> "9a2d"
      [] path.bytes = "b3" -> "c470"

Digests == { get_sha256sum(p) : p \in Paths }

\* Pixmap.digest (hex): the digest of the samples
PixDigestHex(pix) ==
    CASE pix.samples = "s1" -> "m1"
      [] pix.samples = "s2" -> "m2"
      [] pix.samples = "s3" -> "m3"
      [] OTHER -> "m0"

Pixmap(s) == [samples |-> s]

(***************************************************************************)
(* pdf.process.                                                            *)
(***************************************************************************)
BBox(b) == [x0 |-> b[1], y0 |-> b[2], x1 |-> b[3], y1 |-> b[4]]
TextBlock(span) == [text |-> span.text, bbox |-> BBox(span.bbox)]

\* dict.get(key, default)
DictGet(d, key, default) == IF key \in DOMAIN d THEN d[key] ELSE default

\* for span in line.get("spans"): a line without the key gives None, and
\* iterating None raises TypeError
SpansOfLine(line) ==
    IF "spans" \in DOMAIN line THEN [err |-> "none", spans |-> line.spans]
                               ELSE [err |-> "TypeError", spans |-> <<>>]

RECURSIVE SpansToBlocks(_)
SpansToBlocks(spans) ==
    IF spans = <<>> THEN <<>>
    ELSE <<TextBlock(Head(spans))>> \o SpansToBlocks(Tail(spans))

\* the loop over a block's lines, appending to text_blocks
RECURSIVE FlattenLines(_, _)
FlattenLines(lines, acc) ==
    IF lines = <<>> THEN [err |-> "none", out |-> acc]
    ELSE LET s == SpansOfLine(Head(lines))
         IN  IF s.err # "none" THEN [err |-> s.err, out |-> acc]
             ELSE FlattenLines(Tail(lines), acc \o SpansToBlocks(s.spans))

\* the loop over the blocks
RECURSIVE FlattenBlocks(_, _)
FlattenBlocks(blocks, acc) ==
    IF blocks = <<>> THEN [err |-> "none", out |-> acc]
    ELSE LET block == Head(blocks)
         IN  IF block.type = 0 /\ "lines" \in DOMAIN block
             THEN LET r == FlattenLines(DictGet(block, "lines", <<>>), acc)
                  IN  IF r.err # "none" THEN r
                      ELSE FlattenBlocks(Tail(blocks), r.out)
             ELSE FlattenBlocks(Tail(blocks), acc)

\* one iteration of the page loop, for page index n (0-based)
ProcessPage(handle, n) ==
    LET page == handle[n + 1]
        flat == FlattenBlocks(DictGet(page.dict, "blocks", <<>>), <<>>)
    IN  [err |-> flat.err,
         page |-> [page_number |-> n + 1,
                   width |-> page.rect.width,
                   height |-> page.rect.height,
                   zoom_factor |-> Float(DPI, PointsPerInch),
                   raw_text |-> page.text,
                   page_image |-> Pixmap(page.samples),
                   text_blocks |-> flat.out]]

RECURSIVE ProcessPages(_, _, _)
ProcessPages(handle, n, pages) ==
    IF n >= Len(handle) THEN [err |-> "none", pages |-> pages]
    ELSE LET r == ProcessPage(handle, n)
         IN  IF r.err # "none" THEN [err |-> r.err, pages |-> pages]
             ELSE ProcessPages(handle, n + 1, Append(pages, r.page))

ProcessedPDF(path, pages) ==
    [filename |-> path.name, sha256sum |-> get_sha256sum(path), pages |-> pages]

\* process(path): the document, or the exception that ends it
process(path) ==
    LET r == ProcessPages(FitzOpen(path.bytes), 0, <<>>)
    IN  [err |-> r.err, doc |-> ProcessedPDF(path, r.pages)]

(***************************************************************************)
(* The converter: unstructure / json.dump and json.load / structure.       *)
(***************************************************************************)
\* the name _unstructure_pixmap gives a Pixmap's file: <digest hex>.png
AssetName(pix) == <<PixDigestHex(pix), "png">>

AssetNames == { AssetName(Pixmap(s)) : s \in {"s1", "s2", "s3"} }

\* files: what a path of the asset directory holds
NoFile == [state |-> "absent", samples |-> "none"]
PartialFile == [state |-> "partial", samples |-> "none"]
\* Pixmap.save: a PNG of the samples (lossless)
PngFile(pix) == [state |-> "png", samples |-> pix.samples]

\* _unstructure_pixmap's return value (its save is the store's own step)
unstructure_pixmap(pix) == AssetName(pix)

UnstructurePage(p) ==
    [p EXCEPT !.page_image = unstructure_pixmap(p.page_image)]

\* converter.unstructure(processed_pdf): fields by declared type, which
\* for int, float and str hands the value through as it is
Unstructure(d) ==
    [d EXCEPT !.pages = [i \in 1..Len(d.pages) |-> UnstructurePage(d.pages[i])]]

\* the tokens of the record file
Open == [t |-> "open"]
Close == [t |-> "close"]
Nul == [t |-> "nul"]
NameToken(c) == [t |-> "fn", c |-> c]
ShaToken(s) == [t |-> "sha", s |-> s]
PageToken(p) == [t |-> "page", p |-> p]

\* json.dump(unstructured, f, indent=2): the text the file object is given
JsonDump(u) ==
    <<Open>>
    \o [i \in 1..Len(u.filename) |-> NameToken(u.filename[i])]
    \o <<ShaToken(u.sha256sum)>>
    \o [i \in 1..Len(u.pages) |-> PageToken(u.pages[i])]
    \o <<Close>>

\* json.load(f): the value the text denotes, or JSONDecodeError
JsonLoad(c) ==
    LET n == Len(c)
        shas == { i \in 1..n : c[i].t = "sha" }
        k == IF shas = {} THEN 0 ELSE CHOOSE i \in shas : \A j \in shas : i <= j
        wellFormed ==
            /\ n >= 3
            /\ c[1] = Open
            /\ c[n] = Close
            /\ k >= 2 /\ k <= n - 1
            /\ \A i \in 2..(k - 1) : c[i].t = "fn"
            /\ \A i \in (k + 1)..(n - 1) : c[i].t = "page"
    IN  IF wellFormed
        THEN [err |-> "none",
              value |-> [filename |-> [i \in 1..(k - 2) |-> c[i + 1].c],
                         sha256sum |-> c[k].s,
                         pages |-> [i \in 1..(n - 1 - k) |-> c[k + i].p]]]
        ELSE [err |-> "JSONDecodeError",
              value |-> [filename |-> <<>>, sha256sum |-> "", pages |-> <<>>]]

\* a hook that hands back an empty Pixmap where the file is missing
structure_pixmap_blank(files, name) ==
    IF files[name].state = "png"
    THEN [err |-> "none", pix |-> [samples |-> files[name].samples]]
    ELSE [err |-> "none", pix |-> [samples |-> "none"]]

\* _structure_pixmap: fitz.Pixmap(image_dir / path_str) reads the file back,
\* and raises when there is no such file or it is no complete image
structure_pixmap(files, name) ==
    IF files[name].state = "png"
    THEN [err |-> "none", pix |-> Pixmap(files[name].samples)]
    ELSE [err |-> "ClassValidationError", pix |-> Pixmap("none")]

\* one ProcessedPage structured: int fields through int(), float fields
\* through float(), the Pixmap through its hook
StructurePage(files, up) ==
    LET img == structure_pixmap(files, up.page_image)
    IN  [err |-> img.err,
         page |-> [up EXCEPT !.width = PyInt(up.width),
                             !.height = PyInt(up.height),
                             !.zoom_factor = PyFloat(up.zoom_factor),
                             !.page_image = img.pix]]

\* converter.structure(unstructured, ProcessedPDF): any hook's exception
\* comes out as the converter's ClassValidationError
Structure(files, u) ==
    LET ps == [i \in 1..Len(u.pages) |-> StructurePage(files, u.pages[i])]
    IN  IF \E i \in 1..Len(ps) : ps[i].err # "none"
        THEN [err |-> "ClassValidationError", doc |-> u]
        ELSE [err |-> "none",
              doc |-> [u EXCEPT !.pages = [i \in 1..Len(ps) |-> ps[i].page]]]

\* a write of data at offset off of a file: the file grows as needed and a
\* gap before the offset reads as NUL
WriteAt(content, off, data) ==
    LET len == IF off + Len(data) > Len(content) THEN off + Len(data)
               ELSE Len(content)
    IN  [i \in 1..len |->
            IF i > off /\ i <= off + Len(data) THEN data[i - off]
            ELSE IF i <= Len(content) THEN content[i]
            ELSE Nul]

\* Python's == on two documents, field for field
PageEq(p, q) ==
    /\ p.page_number = q.page_number
    /\ NumEq(p.width, q.width)
    /\ NumEq(p.height, q.height)
    /\ NumEq(p.zoom_factor, q.zoom_factor)
    /\ p.raw_text = q.raw_text
    /\ p.page_image.samples = q.page_image.samples
    /\ p.text_blocks = q.text_blocks

DocEq(d, e) ==
    /\ d.filename = e.filename
    /\ d.sha256sum = e.sha256sum
    /\ Len(d.pages) = Len(e.pages)
    /\ \A i \in 1..Len(d.pages) : PageEq(d.pages[i], e.pages[i])

(***************************************************************************)
(* State.                                                                  *)
(*   dirs     the digests whose directory STORAGE_DIR/<digest> exists      *)
(*   records  per digest, the file processed_pdf.json of that directory    *)
(*   assets   per digest, the files <name>.png of that directory           *)
(*   wr       per writer, its call of store                                *)
(*   rd       the reading client's call of load                            *)
(*   hist     what has happened to each entry (not program state)          *)
(*   run      the command line's run                                       *)
(***************************************************************************)
Writers == {"w1", "w2"}

NoDoc == [filename |-> <<>>, sha256sum |-> "", pages |-> <<>>]
NoPath == [name |-> <<>>, bytes |-> "b0"]

\* the documents store can be handed: what process returns
Storable == { p \in Paths : process(p).err = "none" }

NoRecord == [present |-> FALSE, content |-> <<>>]

EmptyDirs == {}
EmptyRecords == [s \in Digests |-> NoRecord]
EmptyAssets == [s \in Digests |-> [a \in AssetNames |-> NoFile]]

IdleWriter == [pc |-> "idle", doc |-> NoDoc, i |-> 0, off |-> 0, buf |-> <<>>]
IdleReader ==
    [pc |-> "idle", path |-> NoPath, sha |-> "", unstructured |-> NoDoc,
     outcome |-> "none", doc |-> NoDoc, loads |-> 0, quiet |-> FALSE]
NoHist ==
    [started |-> [s \in Digests |-> 0],
     returned |-> [s \in Digests |-> 0],
     overlap |-> [s \in Digests |-> FALSE],
     stored |-> [s \in Digests |-> {}],
     last |-> [s \in Digests |-> NoDoc],
     deleted |-> [s \in Digests |-> FALSE],
     deletes |-> 0]
IdleRun ==
    [pc |-> "idle", path |-> NoPath, n |-> 0, pages |-> <<>>, err |-> "none",
     doc |-> NoDoc, runs |-> 0, extracted |-> 0, hit |-> FALSE]

Active(w) == wr[w].pc \notin {"idle", "done"}

\* a step of a writer or of the environment once a load has begun
Disturb == IF rd.pc # "idle" THEN [rd EXCEPT !.quiet = FALSE] ELSE rd

(***************************************************************************)
(* pdf.store, step by step.                                                *)
(***************************************************************************)
\* sub_dir.exists()
SubDirExists(sha) == sha \in dirs

\* store is called with process's document; sub_dir.mkdir(exist_ok, parents)
StoreBegin(w, p) ==
    LET d == process(p).doc
        s == d.sha256sum
    IN  /\ wr[w].pc = "idle"
        /\ p \in Storable
        /\ dirs' = dirs \cup {s}
        /\ wr' = [wr EXCEPT ![w] = [IdleWriter EXCEPT !.pc = "unstructure",
                                                      !.doc = d, !.i = 1]]
        /\ hist' = [hist EXCEPT
                      !.started[s] = @ + 1,
                      !.overlap[s] = @ \/ \E v \in Writers \ {w} :
                                            Active(v) /\ wr[v].doc.sha256sum = s,
                      !.stored[s] = @ \cup {d}]
        /\ rd' = Disturb
        /\ UNCHANGED <<records, assets, run>>

\* _unstructure_pixmap, first half: pix.save opens <digest>.png for writing,
\* which empties the file if it is there
StoreSaveOpen(w) ==
    LET d == wr[w].doc
        s == d.sha256sum
    IN  /\ wr[w].pc = "unstructure"
        /\ wr[w].i <= Len(d.pages)
        /\ assets' = [assets EXCEPT
                        ![s][AssetName(d.pages[wr[w].i].page_image)] = PartialFile]
        /\ wr' = [wr EXCEPT ![w].pc = "saving"]
        /\ rd' = Disturb
        /\ UNCHANGED <<dirs, records, hist, run>>

\* _unstructure_pixmap, second half: the image is written and the file closed
StoreSaveWrite(w) ==
    LET d == wr[w].doc
        s == d.sha256sum
        pix == d.pages[wr[w].i].page_image
    IN  /\ wr[w].pc = "saving"
        /\ assets' = [assets EXCEPT ![s][AssetName(pix)] = PngFile(pix)]
        /\ wr' = [wr EXCEPT ![w].pc = "unstructure", ![w].i = @ + 1]
        /\ rd' = Disturb
        /\ UNCHANGED <<dirs, records, hist, run>>

\* open(sub_dir / "processed_pdf.json", "w"): the file is created or emptied;
\* json.dump hands its text to the file object
StoreOpen(w) ==
    LET d == wr[w].doc
        s == d.sha256sum
    IN  /\ wr[w].pc = "unstructure"
        /\ wr[w].i > Len(d.pages)
        /\ records' = [records EXCEPT ![s] = [present |-> TRUE, content |-> <<>>]]
        /\ wr' = [wr EXCEPT ![w].pc = "dump", ![w].off = 0,
                            ![w].buf = JsonDump(Unstructure(d))]
        /\ rd' = Disturb
        /\ UNCHANGED <<dirs, assets, hist, run>>

\* the file object flushes a full buffer, or what is left when the with
\* block closes the file; store returns after the last flush
StoreFlush(w) ==
    LET d == wr[w].doc
        s == d.sha256sum
        k == IF Len(wr[w].buf) < BufSize THEN Len(wr[w].buf) ELSE BufSize
        data == SubSeq(wr[w].buf, 1, k)
        rest == SubSeq(wr[w].buf, k + 1, Len(wr[w].buf))
    IN  /\ wr[w].pc = "dump"
        /\ records' = [records EXCEPT
                         ![s].content = WriteAt(@, wr[w].off, data)]
        /\ wr' = [wr EXCEPT ![w].pc = IF rest = <<>> THEN "done" ELSE "dump",
                            ![w].off = @ + k,
                            ![w].buf = rest]
        /\ hist' = IF rest = <<>>
                   THEN [hist EXCEPT !.returned[s] = @ + 1, !.last[s] = d]
                   ELSE hist
        /\ rd' = Disturb
        /\ UNCHANGED <<dirs, assets, run>>

(***************************************************************************)
(* pdf.load, step by step.                                                 *)
(***************************************************************************)
\* a check that raises another exception than the one for a miss
LoadCheckOtherError(sha) ==
    IF sha \notin dirs THEN "ClassValidationError" ELSE "none"

\* if not sub_dir.exists(): raise FileNotFoundError(path)
LoadCheck(sha) ==
    IF ~SubDirExists(sha) THEN "FileNotFoundError" ELSE "none"

LoadBegin(p) ==
    LET s == get_sha256sum(p)
        e == LoadCheck(s)
    IN  /\ rd.pc \in {"idle", "done"}
        /\ rd.loads < MaxLoads
        /\ rd' = [IdleReader EXCEPT
                    !.pc = IF e = "none" THEN "open" ELSE "done",
                    !.path = p, !.sha = s, !.outcome = e,
                    !.loads = rd.loads + 1,
                    !.quiet = \A w \in Writers : ~Active(w)]
        /\ UNCHANGED <<dirs, records, assets, wr, hist, run>>

\* open(sub_dir / "processed_pdf.json") and json.load(f)
LoadRead ==
    LET f == records[rd.sha]
        j == JsonLoad(f.content)
        e == IF ~f.present THEN "FileNotFoundError" ELSE j.err
    IN  /\ rd.pc = "open"
        /\ rd' = [rd EXCEPT !.pc = IF e = "none" THEN "structure" ELSE "done",
                            !.outcome = e,
                            !.unstructured = IF e = "none" THEN j.value ELSE NoDoc]
        /\ UNCHANGED <<dirs, records, assets, wr, hist, run>>

\* converter.structure(unstructured, ProcessedPDF) and the return
LoadStructure ==
    LET r == Structure(assets[rd.sha], rd.unstructured)
    IN  /\ rd.pc = "structure"
        /\ rd' = [rd EXCEPT !.pc = "done",
                            !.outcome = IF r.err = "none" THEN "ok" ELSE r.err,
                            !.doc = IF r.err = "none" THEN r.doc ELSE NoDoc,
                            !.unstructured = NoDoc]
        /\ UNCHANGED <<dirs, records, assets, wr, hist, run>>

(***************************************************************************)
(* The environment: an asset file of an entry is deleted.                  *)
(***************************************************************************)
DeleteAsset(s, a) ==
    /\ hist.deletes < MaxDeletes
    /\ assets[s][a].state = "png"
    /\ assets' = [assets EXCEPT ![s][a] = NoFile]
    /\ hist' = [hist EXCEPT !.deletes = @ + 1, !.deleted[s] = TRUE]
    /\ rd' = Disturb
    /\ UNCHANGED <<dirs, records, wr, run>>

Init ==
    /\ dirs = EmptyDirs
    /\ records = EmptyRecords
    /\ assets = EmptyAssets
    /\ wr = [w \in Writers |-> IdleWriter]
    /\ rd = IdleReader
    /\ hist = NoHist
    /\ run = IdleRun

Next ==
    \/ \E w \in Writers, p \in Paths : StoreBegin(w, p)
    \/ \E w \in Writers : StoreSaveOpen(w)
    \/ \E w \in Writers : StoreSaveWrite(w)
    \/ \E w \in Writers : StoreOpen(w)
    \/ \E w \in Writers : StoreFlush(w)
    \/ \E p \in Paths : LoadBegin(p)
    \/ LoadRead
    \/ LoadStructure
    \/ \E s \in Digests, a \in AssetNames : DeleteAsset(s, a)

\* the cache under concurrent store and load calls
Spec == Init /\ [][Next]_vars

(***************************************************************************)
(* cli.takeoff: one run of the command line on a path, and pdf.process     *)
(* page by page.                                                           *)
(***************************************************************************)
\* the entry a completed store(process(p)) leaves behind
EntryRecord(p) ==
    [present |-> TRUE, content |-> JsonDump(Unstructure(process(p).doc))]
EntryAssets(p) ==
    LET pages == process(p).doc.pages
    IN  [a \in AssetNames |->
            IF \E i \in 1..Len(pages) : AssetName(pages[i].page_image) = a
            THEN PngFile(CHOOSE pix \in { pages[i].page_image : i \in 1..Len(pages) } :
                            AssetName(pix) = a)
            ELSE NoFile]

\* the cache holds a complete record for the digest
Cached(sha) == sha \in dirs /\ records[sha].present

\* takeoff(blueprint, verbose, log_file): logging is set up and
\* pdf.process(blueprint) is called
Takeoff(p) ==
    /\ run.pc = "idle"
    /\ run.runs < MaxRuns
    /\ run' = [IdleRun EXCEPT !.pc = "process", !.path = p, !.runs = run.runs,
                              !.hit = Cached(get_sha256sum(p))]
    /\ UNCHANGED <<dirs, records, assets, wr, rd, hist>>

\* doc = fitz.open(path); pages = []
ProcessOpen ==
    /\ run.pc = "process"
    /\ run' = [run EXCEPT !.pc = "loop", !.n = 0, !.pages = <<>>]
    /\ UNCHANGED <<dirs, records, assets, wr, rd, hist>>

\* one iteration of for n in range(doc.page_count)
ProcessLoop ==
    LET r == ProcessPage(FitzOpen(run.path.bytes), run.n)
    IN  /\ run.pc = "loop"
        /\ run.n < Len(FitzOpen(run.path.bytes))
        /\ run' = IF r.err # "none"
                  THEN [run EXCEPT !.pc = "raised", !.err = r.err,
                                   !.extracted = @ + 1]
                  ELSE [run EXCEPT !.n = @ + 1, !.pages = Append(@, r.page),
                                   !.extracted = @ + 1]
        /\ UNCHANGED <<dirs, records, assets, wr, rd, hist>>

\* doc.close(); the digest; the ProcessedPDF is returned to takeoff
ProcessReturn ==
    /\ run.pc = "loop"
    /\ run.n >= Len(FitzOpen(run.path.bytes))
    /\ run' = [run EXCEPT !.pc = "done", !.doc = ProcessedPDF(run.path, run.pages)]
    /\ UNCHANGED <<dirs, records, assets, wr, rd, hist>>

\* the command returns, or ends with the exception
TakeoffExit ==
    /\ run.pc \in {"done", "raised"}
    /\ run' = [run EXCEPT !.pc = "idle", !.runs = @ + 1]
    /\ UNCHANGED <<dirs, records, assets, wr, rd, hist>>

\* the cache is empty, or holds the entry an earlier store of a processed
\* document left
InitRun ==
    /\ \/ /\ dirs = EmptyDirs
          /\ records = EmptyRecords
          /\ assets = EmptyAssets
       \/ \E p \in Storable :
             /\ dirs = {get_sha256sum(p)}
             /\ records = [EmptyRecords EXCEPT ![get_sha256sum(p)] = EntryRecord(p)]
             /\ assets = [EmptyAssets EXCEPT ![get_sha256sum(p)] = EntryAssets(p)]
    /\ wr = [w \in Writers |-> IdleWriter]
    /\ rd = IdleReader
    /\ hist = NoHist
    /\ run = IdleRun

NextRun ==
    \/ \E p \in Paths : Takeoff(p)
    \/ ProcessOpen
    \/ ProcessLoop
    \/ ProcessReturn
    \/ TakeoffExit

\* runs of the command line
SpecRun == InitRun /\ [][NextRun]_vars

(***************************************************************************)
(* The claims.                                                             *)
(***************************************************************************)
\* C1: every run consults the cache first; a run whose digest has an entry
\* does not invoke the Page Extractor, and a run whose digest has none ends
\* with the processed document persisted in the cache.
C1_CacheConsultedThenFilled ==
    /\ run.hit => run.extracted = 0
    /\ run.pc = "done" => Cached(run.doc.sha256sum)

\* C2: a load that follows the one store of a document, with the entry
\* untouched in between, returns a document equal to the stored one field
\* for field.
C2_RoundTrip ==
    ( /\ rd.pc = "done" /\ rd.quiet
      /\ hist.started[rd.sha] = 1 /\ hist.returned[rd.sha] = 1
      /\ ~hist.deleted[rd.sha] )
    => rd.outcome = "ok" /\ DocEq(rd.doc, hist.last[rd.sha])

\* a step of load
LoadStep == rd'.pc # rd.pc \/ rd'.loads # rd.loads

\* C3: a load of a digest no store was ever started for ends with the
\* cache-miss outcome (FileNotFoundError) and no document, and no step of
\* load changes the cache directory.
C3_NeverStoredIsMiss ==
    [][LoadStep =>
        /\ UNCHANGED <<dirs, records, assets>>
        /\ (rd'.pc = "done" /\ hist.started[rd'.sha] = 0)
              => (rd'.outcome = "FileNotFoundError" /\ rd'.doc = NoDoc)]_vars

\* C3's case: a load of a never stored digest has ended while the cache
\* holds another digest's entry
C3_Witness ==
    /\ rd.pc = "done" /\ hist.started[rd.sha] = 0
    /\ rd.outcome = "FileNotFoundError"
    /\ \E s \in Digests : hist.returned[s] > 0

\* C4: load's existence check is false for a digest before any store for it
\* has started, true once a store for it has returned, and true exactly
\* when the entry directory is there and holds the record file.
C4_ExistsIffRecord ==
    \A s \in Digests :
        /\ hist.started[s] = 0 => ~SubDirExists(s)
        /\ hist.returned[s] > 0 => SubDirExists(s)
        /\ SubDirExists(s) <=> (s \in dirs /\ records[s].present)

\* the asset files an entry holds, and those a document's pages name
FilesOf(s) == { a \in AssetNames : assets[s][a].state # "absent" }
ImagesOf(d) == { AssetName(d.pages[i].page_image) : i \in 1..Len(d.pages) }

\* C5: after two store calls with the same document, one after the other,
\* the entry holds exactly one complete asset file per distinct page image
\* and a load returns the document.
C5_StoreTwice ==
    \A s \in Digests :
        ( /\ hist.started[s] = 2 /\ hist.returned[s] = 2
          /\ ~hist.overlap[s] /\ ~hist.deleted[s]
          /\ hist.stored[s] = {hist.last[s]} )
        => /\ FilesOf(s) = ImagesOf(hist.last[s])
           /\ \A a \in FilesOf(s) : assets[s][a].state = "png"
           /\ (rd.pc = "done" /\ rd.quiet /\ rd.sha = s)
                 => (rd.outcome = "ok" /\ DocEq(rd.doc, hist.last[s]))

\* C6: when load structures a valid record one of whose asset files is
\* missing, it ends with the corrupt-cache outcome (ClassValidationError),
\* not the cache-miss outcome, and with no document.
C6_MissingAssetIsCorrupt ==
    [][( /\ rd.pc = "structure" /\ rd'.pc = "done"
         /\ \E i \in 1..Len(rd.unstructured.pages) :
               assets[rd.sha][rd.unstructured.pages[i].page_image].state = "absent" )
       => (rd'.outcome = "ClassValidationError" /\ rd'.doc = NoDoc)]_vars

\* C6's case: a load of a digest whose store returned and one of whose asset
\* files was then deleted has ended as corrupt
C6_Witness ==
    /\ rd.pc = "done" /\ rd.outcome = "ClassValidationError"
    /\ hist.returned[rd.sha] > 0 /\ hist.deleted[rd.sha]
    /\ JsonLoad(records[rd.sha].content).err = "none"
    /\ \A w \in Writers : ~Active(w)

\* C7: no reader sees a partially written entry: an entry that exists for
\* load has a complete record, and a load beside a store in progress ends
\* as absent or with a stored document.
C7_NoPartialEntry ==
    /\ \A s \in Digests :
          SubDirExists(s) =>
              records[s].present /\ JsonLoad(records[s].content).err = "none"
    /\ (rd.pc = "done" /\ ~hist.deleted[rd.sha])
          => \/ rd.outcome = "FileNotFoundError"
             \/ rd.outcome = "ok" /\ \E d \in hist.stored[rd.sha] : DocEq(rd.doc, d)

\* C8: once two overlapping store calls for a digest have both returned, the
\* record file is the complete record of the call that returned last, the
\* assets it names are there, and a load succeeds.
C8_LastWriteWins ==
    \A s \in Digests :
        ( /\ hist.started[s] = 2 /\ hist.returned[s] = 2
          /\ hist.overlap[s] /\ ~hist.deleted[s] )
        => /\ records[s].content = JsonDump(Unstructure(hist.last[s]))
           /\ \A a \in ImagesOf(hist.last[s]) : assets[s][a].state = "png"
           /\ (rd.pc = "done" /\ rd.quiet /\ rd.sha = s) => rd.outcome = "ok"

\* C9: a document with zero pages ends process with an error: a document
\* process returns has at least one page.
C9_NoEmptyDocument ==
    run.pc = "done" => Len(run.doc.pages) > 0

\* the text blocks the flattening is to give: one per span of every line of
\* every text block, in order; a missing or empty list gives none
RECURSIVE Concat(_)
Concat(ss) == IF ss = <<>> THEN <<>> ELSE Head(ss) \o Concat(Tail(ss))
SpansIn(line) == SpansToBlocks(DictGet(line, "spans", <<>>))
LinesIn(block) ==
    IF block.type = 0
    THEN LET ls == DictGet(block, "lines", <<>>)
         IN  Concat([i \in 1..Len(ls) |-> SpansIn(ls[i])])
    ELSE <<>>
BlocksIn(dict) ==
    LET bs == DictGet(dict, "blocks", <<>>)
    IN  Concat([i \in 1..Len(bs) |-> LinesIn(bs[i])])

\* C10: the flattening of a page raises nothing and gives exactly one
\* TextBlock per span of every line of every text block, in traversal order.
C10_FlattenEverySpan ==
    /\ run.err = "none"
    /\ \A i \in 1..Len(run.pages) :
          run.pages[i].text_blocks = BlocksIn(FitzOpen(run.path.bytes)[i].dict)

====
